---- MODULE Spec2Model ----
(***************************************************************************)
(* Model of train.py of HighlightSoccerNet: the epoch/batch loops of       *)
(* run_audio and run, the step functions train_audio, test_audio, train    *)
(* and test, benchmark, and load_or_init_models.  The network, the         *)
(* optimizer, the criterion and the loaders are black boxes: a loader is   *)
(* the sequence of its batch numbers, the parameters of the network are a  *)
(* value of a small set that an optimizer step with a gradient replaces by *)
(* any other, the output of a forward pass is a function of the parameters *)
(* and the batch, and an average is the exact fraction num/den.  Calls of  *)
(* the framework are taken to return.                                      *)
(***************************************************************************)
EXTENDS Integers, Sequences, FiniteSets, TLC

\* ---------------------------------------------------------------- bounds
MaxEpochs == 2      \* opt.n_epochs ranges over 0..MaxEpochs
MaxLen == 2         \* len(train_loader), len(test_loader) range over 0..MaxLen
MaxInterval == 2    \* opt.checkpoint_interval ranges over 1..MaxInterval

StartEpochs == {0, 1}            \* values of opt.epoch
Params == {0, 1}                 \* values of the network's parameters

VARIABLES
    mode,          \* which entry point runs: "run_audio", "run", "benchmark"
    opt,           \* the options: epoch, n_epochs, checkpoint_interval, cuda
    train_loader,  \* batch numbers of the training loader, in loader order
    test_loader,   \* batch numbers of the test loader, in loader order
    pc,            \* position in the running function
    epoch,         \* loop variable of "for epoch in range(...)"
    i,             \* number of batches already drawn from the current loader
    avg_stats,     \* the accumulator: <<key, sum>> pairs in insertion order
    avg,           \* the local avg
    out,           \* the forward pass's output, as the <<loss, accuracy>> it has
    losses,        \* the local losses of the running step function
    attached,      \* whether output is connected to the parameters' graph
    dataDev,       \* device of the current batch's input and label tensors
    net,           \* [training, device, params] of the network
    grad,          \* batches whose backward pass is summed in the .grad fields
    no_grad,       \* inside "with torch.no_grad()"
    optimizer,     \* [steps, used]: optimizer steps taken, gradient of the last
    backwards,     \* number of backward passes made
    ops,           \* history: the calls of the current step function, in order
    train_writer,  \* add_scalar calls on the train writer: [tag, value, step]
    test_writer,   \* add_scalar calls on the test writer
    net_saver,     \* the ModelSaver: its calls, its best score, its snapshot
    trace,         \* history: the steps taken, in order
    phaseHist,     \* history: the bag of statistics returned in this phase
    idx,           \* benchmark: the write index
    output,        \* benchmark: per slot, the batches written to it, in order
    label_glob     \* benchmark: per slot, the labels written to it, in order

vars == <<mode, opt, train_loader, test_loader, pc, epoch, i, avg_stats, avg,
          out, losses, attached, dataDev, net, grad, no_grad, optimizer,
          backwards, ops, train_writer, test_writer, net_saver, trace,
          phaseHist, idx, output, label_glob>>

config == <<mode, opt, train_loader, test_loader>>
bench == <<idx, output, label_glob>>
writers == <<train_writer, test_writer>>
autograd == <<attached, grad, optimizer, backwards, ops>>
locals == <<out, losses>>

\* ------------------------------------------------------------- helpers
Zero == [num |-> 0, den |-> 1]
Unset == [num |-> 0, den |-> 0]

Range(n) == [j \in 1..n |-> j]

\* v / len(loader)
Div(v, n) == [num |-> v, den |-> n]

HasKey(stats, k) == \E j \in DOMAIN stats : stats[j][1] = k

\* avg_stats[k] += v on a defaultdict(float)
AddStat(stats, k, v) ==
    IF HasKey(stats, k)
    THEN [j \in DOMAIN stats |->
            IF stats[j][1] = k THEN <<k, stats[j][2] + v>> ELSE stats[j]]
    ELSE Append(stats, <<k, 0 + v>>)

RECURSIVE update_stats(_, _)
update_stats(stats, d) ==
    IF d = <<>> THEN stats
    ELSE update_stats(AddStat(stats, Head(d)[1], Head(d)[2]), Tail(d))

\* the bag of the dicts the step functions returned: dict -> how many times
NoBatches == <<>>
Record(bag, d) ==
    IF d \in DOMAIN bag THEN [bag EXCEPT ![d] = @ + 1] ELSE (d :> 1) @@ bag

\* to_variables(data, cuda=opt.cuda, device=opt.device)
to_variables(cuda) == IF cuda THEN "cuda" ELSE "cpu"

\* load_or_init_models(model, opt): the device of the returned model
load_or_init_models(cuda) == IF cuda THEN "cuda" ELSE "cpu"

\* model.cuda()
Cuda(dev) == "cuda"

\* net = load_or_init_models(...).cuda()
NetInit(cuda, p) ==
    [training |-> TRUE, device |-> Cuda(load_or_init_models(cuda)), params |-> p]

\* net(...) and what the criterion and the accuracy make of its output: the
\* <<loss, accuracy>> of batch b under the network's parameters and mode
Forward(n, b) ==
    <<1 + n.params * (b % 2),
      IF n.training THEN (n.params + b) % 2 ELSE n.params * (b % 2)>>

\* the dict a step function returns, in the order of its keys
TrainAudioResult(l, a) == <<<<"train loss", l>>, <<"accuracy", a>>>>
TestAudioResult(l, a) == <<<<"test loss", l>>, <<"accuracy", a>>>>
TrainResult(l) == <<<<"train loss", l>>>>
TestResult(l) == <<<<"test loss", l>>>>

\* a logging loop that passes the loader's length as the step
LogEntriesAtLen(stats, n, step) ==
    [j \in 1..Len(stats) |->
        [tag |-> stats[j][1], value |-> [num |-> stats[j][2], den |-> n],
         step |-> n]]

\* for k, v in avg_stats.items(): writer.add_scalar(k, v / len(loader), epoch)
LogEntries(stats, n, step) ==
    [j \in 1..Len(stats) |->
        [tag |-> stats[j][1], value |-> Div(stats[j][2], n), step |-> step]]

\* the value of avg after that loop
LastAvg(stats, n, before) ==
    IF stats = <<>> THEN before ELSE Div(stats[Len(stats)][2], n)

\* a range that includes opt.n_epochs
InRangeInclusive(e, n) == e <= n

\* range(opt.epoch, opt.n_epochs) has another element
InRange(e, n) == e < n

\* a test that holds one epoch early
IsCheckpointEpochShifted(e, interval) == (e + 1) % interval = 0

\* epoch % opt.checkpoint_interval == 0
IsCheckpointEpoch(e, interval) == e % interval = 0

\* a loop that leaves the last batch out
MoreBatchesButLast(k, loader) == k + 1 < Len(loader)

\* enumerate(loader) has another batch after k of them
MoreBatches(k, loader) == k < Len(loader)

\* a training step that does not call net.train()
train_mode_skipped(n) == n

\* net.train()
train_mode(n) == [n EXCEPT !.training = TRUE]

\* net.eval()
eval_mode(n) == [n EXCEPT !.training = FALSE]

\* a training step that does not clear the gradients
zero_grad_skipped(g) == g

\* optimizer.zero_grad()
zero_grad(g) == {}

\* avg_stats = defaultdict(float) at the start of the training phase
TrainStatsInit(old) == <<>>

\* a test phase that goes on with the accumulator of the training phase
TestStatsKept(old) == old

\* avg_stats = defaultdict(float) at the start of the test phase
TestStatsInit(old) == <<>>

\* a test log that does not set avg first
TestAvgKept(old) == old

\* avg = 0 before the test scalars are logged
TestAvgInit(old) == Zero

\* ---------------------------------------------------------------- Init
Opts ==
    [epoch : StartEpochs, n_epochs : 0..MaxEpochs,
     checkpoint_interval : 1..MaxInterval, cuda : BOOLEAN]

Init ==
    /\ mode \in {"run_audio", "run", "benchmark"}
    /\ opt \in Opts
    /\ mode = "benchmark" => /\ opt.epoch = 0
                             /\ opt.n_epochs = 0
                             /\ opt.checkpoint_interval = 1
    /\ \E n \in 0..MaxLen : train_loader = Range(n)
    /\ \E n \in 0..MaxLen : test_loader = Range(n)
    /\ pc = IF mode = "benchmark" THEN "b_train" ELSE "epoch_head"
    /\ epoch = opt.epoch
    /\ i = 0
    /\ avg_stats = <<>>
    /\ avg = Unset
    /\ out = <<0, 0>>
    /\ losses = 0
    /\ attached = FALSE
    /\ dataDev = "cpu"
    /\ \E p \in Params : net = NetInit(opt.cuda, p)
    /\ grad = {}
    /\ no_grad = FALSE
    /\ optimizer = [steps |-> 0, used |-> {}]
    /\ backwards = 0
    /\ ops = <<>>
    /\ train_writer = <<>>
    /\ test_writer = <<>>
    /\ net_saver = [calls |-> <<>>, best |-> Unset, snapshot |-> -1]
    /\ trace = <<>>
    /\ phaseHist = NoBatches
    /\ idx = 0
    /\ output = [j \in 1..(Len(test_loader) + Len(train_loader)) |-> <<>>]
    /\ label_glob = [j \in 1..(Len(test_loader) + Len(train_loader)) |-> <<>>]

Looping == mode \in {"run_audio", "run"}

\* ------------------------------------------------- run_audio and run
\* for epoch in range(opt.epoch, opt.n_epochs): avg_stats = defaultdict(float)
EpochHead ==
    /\ Looping /\ pc = "epoch_head"
    /\ IF InRange(epoch, opt.n_epochs)
       THEN /\ pc' = "train_loop"
            /\ avg_stats' = TrainStatsInit(avg_stats)
            /\ i' = 0
            /\ phaseHist' = NoBatches
       ELSE /\ pc' = "done"
            /\ UNCHANGED <<avg_stats, i, phaseHist>>
    /\ UNCHANGED <<config, epoch, avg, locals, dataDev, net, no_grad, autograd,
                   writers, net_saver, trace, bench>>

\* for i, data in enumerate(train_loader): the next batch, or the end
TrainLoop ==
    /\ Looping /\ pc = "train_loop"
    /\ IF MoreBatches(i, train_loader)
       THEN /\ i' = i + 1
            /\ dataDev' = IF mode = "run" THEN to_variables(opt.cuda) ELSE "cpu"
            /\ ops' = <<>>
            /\ pc' = "t_mode"
       ELSE /\ pc' = "log_train"
            /\ UNCHANGED <<i, dataDev, ops>>
    /\ UNCHANGED <<config, epoch, avg_stats, avg, locals, net, no_grad, attached,
                   grad, optimizer, backwards, writers, net_saver, trace,
                   phaseHist, bench>>

\* net.train()
TrainMode ==
    /\ pc = "t_mode"
    /\ net' = train_mode(net)
    /\ ops' = Append(ops, "train")
    /\ pc' = "t_zero"
    /\ UNCHANGED <<config, epoch, i, avg_stats, avg, locals, dataDev, no_grad,
                   attached, grad, optimizer, backwards, writers, net_saver,
                   trace, phaseHist, bench>>

\* optimizer.zero_grad()
ZeroGrad ==
    /\ pc = "t_zero"
    /\ grad' = zero_grad(grad)
    /\ ops' = Append(ops, "zero_grad")
    /\ pc' = IF mode = "run_audio" THEN "t_move" ELSE "t_fwd"
    /\ UNCHANGED <<config, epoch, i, avg_stats, avg, locals, dataDev, net,
                   no_grad, attached, optimizer, backwards, writers, net_saver,
                   trace, phaseHist, bench>>

\* train_audio: if opt.cuda: volumes = volumes.cuda(); labels = labels.cuda()
TrainMove ==
    /\ pc = "t_move"
    /\ dataDev' = IF opt.cuda THEN Cuda(dataDev) ELSE dataDev
    /\ pc' = "t_fwd"
    /\ UNCHANGED <<config, epoch, i, avg_stats, avg, locals, net, no_grad,
                   autograd, writers, net_saver, trace, phaseHist, bench>>

\* output = net(...); in train the result is wrapped in a new Variable, a leaf
\* that is not connected to the parameters
TrainForward ==
    /\ pc = "t_fwd"
    /\ out' = Forward(net, train_loader[i])
    /\ attached' = (mode = "run_audio")
    /\ ops' = Append(ops, "forward")
    /\ pc' = "t_loss"
    /\ UNCHANGED <<config, epoch, i, avg_stats, avg, losses, dataDev, net,
                   no_grad, grad, optimizer, backwards, writers, net_saver,
                   trace, phaseHist, bench>>

\* losses = criterion(output, labels)
TrainLoss ==
    /\ pc = "t_loss"
    /\ losses' = out[1]
    /\ ops' = Append(ops, "loss")
    /\ pc' = "t_bwd"
    /\ UNCHANGED <<config, epoch, i, avg_stats, avg, out, dataDev, net, no_grad,
                   attached, grad, optimizer, backwards, writers, net_saver,
                   trace, phaseHist, bench>>

\* losses.backward()
Backward ==
    /\ pc = "t_bwd"
    /\ grad' = IF attached THEN grad \cup {<<epoch, i>>} ELSE grad
    /\ backwards' = backwards + 1
    /\ ops' = Append(ops, "backward")
    /\ pc' = "t_step"
    /\ UNCHANGED <<config, epoch, i, avg_stats, avg, locals, dataDev, net,
                   no_grad, attached, optimizer, writers, net_saver, trace,
                   phaseHist, bench>>

\* optimizer.step(): the parameters that have a gradient are updated
OptimizerStep ==
    /\ pc = "t_step"
    /\ optimizer' = [steps |-> optimizer.steps + 1, used |-> grad]
    /\ IF grad = {}
       THEN UNCHANGED net
       ELSE \E p \in Params : net' = [net EXCEPT !.params = p]
    /\ ops' = Append(ops, "step")
    /\ pc' = "t_ret"
    /\ UNCHANGED <<config, epoch, i, avg_stats, avg, locals, dataDev, no_grad,
                   attached, grad, backwards, writers, net_saver, trace,
                   phaseHist, bench>>

\* the return of train_audio / train, where its locals end, and
\* update_stats(avg_stats, loss)
TrainReturn ==
    /\ pc = "t_ret"
    /\ LET res == IF mode = "run_audio"
                  THEN TrainAudioResult(losses, out[2])
                  ELSE TrainResult(losses)
       IN /\ avg_stats' = update_stats(avg_stats, res)
          /\ phaseHist' = Record(phaseHist, res)
    /\ trace' = Append(trace, <<"train", epoch, train_loader[i]>>)
    /\ out' = <<0, 0>> /\ losses' = 0
    /\ pc' = "train_loop"
    /\ UNCHANGED <<config, epoch, i, avg, dataDev, net, no_grad, autograd,
                   writers, net_saver, bench>>

\* for k, v in avg_stats.items(): train_writer.add_scalar(k, avg, epoch)
LogTrain ==
    /\ pc = "log_train"
    /\ train_writer' =
         train_writer \o LogEntries(avg_stats, Len(train_loader), epoch)
    /\ avg' = LastAvg(avg_stats, Len(train_loader), avg)
    /\ trace' = Append(trace, <<"log_train", epoch, 0>>)
    /\ pc' = "test_begin"
    /\ UNCHANGED <<config, epoch, i, avg_stats, locals, dataDev, net, no_grad,
                   autograd, test_writer, net_saver, phaseHist, bench>>

\* avg_stats = defaultdict(float); with torch.no_grad():
TestBegin ==
    /\ pc = "test_begin"
    /\ avg_stats' = TestStatsInit(avg_stats)
    /\ no_grad' = TRUE
    /\ i' = 0
    /\ phaseHist' = NoBatches
    /\ pc' = "test_loop"
    /\ UNCHANGED <<config, epoch, avg, locals, dataDev, net, autograd, writers,
                   net_saver, trace, bench>>

\* for i, data in enumerate(test_loader): the next batch, or the end of the
\* loop and of the no_grad block
TestLoop ==
    /\ pc = "test_loop"
    /\ IF MoreBatches(i, test_loader)
       THEN /\ i' = i + 1
            /\ dataDev' = IF mode = "run" THEN to_variables(opt.cuda) ELSE "cpu"
            /\ trace' = Append(trace, <<"test", epoch, test_loader[i + 1]>>)
            /\ ops' = <<>>
            /\ pc' = "e_mode"
            /\ UNCHANGED no_grad
       ELSE /\ no_grad' = FALSE
            /\ pc' = "log_test"
            /\ UNCHANGED <<i, dataDev, trace, ops>>
    /\ UNCHANGED <<config, epoch, avg_stats, avg, locals, net, attached, grad,
                   optimizer, backwards, writers, net_saver, phaseHist, bench>>

\* net.eval()
TestMode ==
    /\ pc = "e_mode"
    /\ net' = eval_mode(net)
    /\ ops' = Append(ops, "eval")
    /\ pc' = IF mode = "run_audio" THEN "e_move" ELSE "e_fwd"
    /\ UNCHANGED <<config, epoch, i, avg_stats, avg, locals, dataDev, no_grad,
                   attached, grad, optimizer, backwards, writers, net_saver,
                   trace, phaseHist, bench>>

\* test_audio: if opt.cuda: volumes = volumes.cuda(); labels = labels.cuda()
TestMove ==
    /\ pc = "e_move"
    /\ dataDev' = IF opt.cuda THEN Cuda(dataDev) ELSE dataDev
    /\ pc' = "e_fwd"
    /\ UNCHANGED <<config, epoch, i, avg_stats, avg, locals, net, no_grad,
                   autograd, writers, net_saver, trace, phaseHist, bench>>

\* output = net(...) under no_grad: no graph is recorded
TestForward ==
    /\ pc = "e_fwd"
    /\ out' = Forward(net, test_loader[i])
    /\ attached' = FALSE
    /\ ops' = Append(ops, "forward")
    /\ pc' = "e_loss"
    /\ UNCHANGED <<config, epoch, i, avg_stats, avg, losses, dataDev, net,
                   no_grad, grad, optimizer, backwards, writers, net_saver,
                   trace, phaseHist, bench>>

\* losses = criterion(output, labels)
TestLoss ==
    /\ pc = "e_loss"
    /\ losses' = out[1]
    /\ ops' = Append(ops, "loss")
    /\ pc' = "e_ret"
    /\ UNCHANGED <<config, epoch, i, avg_stats, avg, out, dataDev, net, no_grad,
                   attached, grad, optimizer, backwards, writers, net_saver,
                   trace, phaseHist, bench>>

\* the return of test_audio / test, where its locals end, and
\* update_stats(avg_stats, loss)
TestReturn ==
    /\ pc = "e_ret"
    /\ LET res == IF mode = "run_audio"
                  THEN TestAudioResult(losses, out[2])
                  ELSE TestResult(losses)
       IN /\ avg_stats' = update_stats(avg_stats, res)
          /\ phaseHist' = Record(phaseHist, res)
    /\ out' = <<0, 0>> /\ losses' = 0
    /\ pc' = "test_loop"
    /\ UNCHANGED <<config, epoch, i, avg, dataDev, net, no_grad, autograd,
                   writers, net_saver, trace, bench>>

\* avg = 0; for k, v in avg_stats.items(): test_writer.add_scalar(k, avg, epoch)
LogTest ==
    /\ pc = "log_test"
    /\ test_writer' =
         test_writer \o LogEntries(avg_stats, Len(test_loader), epoch)
    /\ avg' = LastAvg(avg_stats, Len(test_loader), TestAvgInit(avg))
    /\ trace' = Append(trace, <<"log_test", epoch, 0>>)
    /\ pc' = "checkpoint"
    /\ UNCHANGED <<config, epoch, i, avg_stats, locals, dataDev, net, no_grad,
                   autograd, train_writer, net_saver, phaseHist, bench>>

\* a / b > c / d
Better(x, y) == x.num * y.den > y.num * x.den

\* ModelSaver.save_if_best(net, score): a snapshot of the network replaces the
\* saved one when the score beats the best score so far
save_if_best(saver, e, score) ==
    IF saver.best = Unset \/ Better(score, saver.best)
    THEN [calls |-> Append(saver.calls, [epoch |-> e, score |-> score]),
          best |-> score, snapshot |-> e]
    ELSE [saver EXCEPT !.calls = Append(@, [epoch |-> e, score |-> score])]

\* if epoch % opt.checkpoint_interval == 0: net_saver.save_if_best(net, avg);
\* then the next epoch of the range
Checkpoint ==
    /\ pc = "checkpoint"
    /\ IF IsCheckpointEpoch(epoch, opt.checkpoint_interval)
       THEN /\ net_saver' = save_if_best(net_saver, epoch, avg)
            /\ trace' = Append(trace, <<"save", epoch, 0>>)
       ELSE UNCHANGED <<net_saver, trace>>
    /\ epoch' = epoch + 1
    /\ pc' = "epoch_head"
    /\ UNCHANGED <<config, i, avg_stats, avg, locals, dataDev, net, no_grad,
                   autograd, writers, phaseHist, bench>>

\* ----------------------------------------------------------- benchmark
\* np.zeros(len(test_loader) + len(train_loader))
Slots == Len(output)

\* output[idx] = ...: numpy accepts 0 <= idx < len(output)
InBounds(k) == 0 <= k /\ k < Slots

\* idx = idx + 1
NextIdx(k) == k + 1

\* a second loop that starts at slot 0 again
TestStartIdxReset(k) == 0

\* idx when the loop over test_loader starts
TestStartIdx(k) == k

\* one iteration of "for i, data in enumerate(train_loader)", or its end
BenchTrainBatch ==
    /\ mode = "benchmark" /\ pc = "b_train"
    /\ IF MoreBatches(i, train_loader)
       THEN /\ dataDev' = to_variables(opt.cuda)
            /\ IF InBounds(idx)
               THEN /\ output' = [output EXCEPT
                          ![idx + 1] = Append(@, <<"train", train_loader[i + 1]>>)]
                    /\ label_glob' = [label_glob EXCEPT
                          ![idx + 1] = Append(@, <<"train", train_loader[i + 1]>>)]
                    /\ idx' = NextIdx(idx)
                    /\ i' = i + 1
                    /\ pc' = "b_train"
               ELSE /\ pc' = "index_error"
                    /\ UNCHANGED <<output, label_glob, idx, i>>
       ELSE /\ i' = 0
            /\ idx' = TestStartIdx(idx)
            /\ pc' = "b_test"
            /\ UNCHANGED <<dataDev, output, label_glob>>
    /\ UNCHANGED <<config, epoch, avg_stats, avg, locals, net, no_grad,
                   autograd, writers, net_saver, trace, phaseHist>>

\* one iteration of "for i, data in enumerate(test_loader)", or its end
BenchTestBatch ==
    /\ mode = "benchmark" /\ pc = "b_test"
    /\ IF MoreBatches(i, test_loader)
       THEN /\ dataDev' = to_variables(opt.cuda)
            /\ IF InBounds(idx)
               THEN /\ output' = [output EXCEPT
                          ![idx + 1] = Append(@, <<"test", test_loader[i + 1]>>)]
                    /\ label_glob' = [label_glob EXCEPT
                          ![idx + 1] = Append(@, <<"test", test_loader[i + 1]>>)]
                    /\ idx' = NextIdx(idx)
                    /\ i' = i + 1
                    /\ pc' = "b_test"
               ELSE /\ pc' = "index_error"
                    /\ UNCHANGED <<output, label_glob, idx, i>>
       ELSE /\ pc' = "b_round"
            /\ UNCHANGED <<i, idx, dataDev, output, label_glob>>
    /\ UNCHANGED <<config, epoch, avg_stats, avg, locals, net, no_grad,
                   autograd, writers, net_saver, trace, phaseHist>>

\* final_tag = np.round(output); return final_tag
BenchReturn ==
    /\ mode = "benchmark" /\ pc = "b_round"
    /\ pc' = "done"
    /\ UNCHANGED <<config, epoch, i, avg_stats, avg, locals, dataDev, net,
                   no_grad, autograd, writers, net_saver, trace, phaseHist,
                   bench>>

\* ------------------------------------------------------- specification
Next ==
    \/ EpochHead
    \/ TrainLoop
    \/ TrainMode
    \/ ZeroGrad
    \/ TrainMove
    \/ TrainForward
    \/ TrainLoss
    \/ Backward
    \/ OptimizerStep
    \/ TrainReturn
    \/ LogTrain
    \/ TestBegin
    \/ TestLoop
    \/ TestMode
    \/ TestMove
    \/ TestForward
    \/ TestLoss
    \/ TestReturn
    \/ LogTest
    \/ Checkpoint
    \/ BenchTrainBatch
    \/ BenchTestBatch
    \/ BenchReturn

Spec == Init /\ [][Next]_vars

\* ------------------------------------------------ notions of the claims
NTrain == Len(train_loader)
NTest == Len(test_loader)

TrainKeys == IF mode = "run_audio" THEN {"train loss", "accuracy"} ELSE {"train loss"}
TestKeys == IF mode = "run_audio" THEN {"test loss", "accuracy"} ELSE {"test loss"}

\* the positions of the training phase, of the test phase, and after each log
TrainPcs == {"train_loop", "t_mode", "t_zero", "t_move", "t_fwd", "t_loss",
             "t_bwd", "t_step", "t_ret", "log_train"}
TestPcs == {"test_begin", "test_loop", "e_mode", "e_move", "e_fwd", "e_loss",
            "e_ret", "log_test"}

IsPrefix(s, t) == Len(s) <= Len(t) /\ \A j \in 1..Len(s) : s[j] = t[j]

Last(s) == s[Len(s)]

\* the steps an epoch is to make: every training batch, then every test batch
EpochSteps(e) ==
    [j \in 1..NTrain |-> <<"train", e, j>>] \o [j \in 1..NTest |-> <<"test", e, j>>]

RECURSIVE StepsFrom(_)
StepsFrom(e) == IF e >= opt.n_epochs THEN <<>> ELSE EpochSteps(e) \o StepsFrom(e + 1)

IsStep(ev) == ev[1] \in {"train", "test"}
Count(kind) == Len(SelectSeq(trace, LAMBDA ev : ev[1] = kind))

\* the value a returned dict has for a key, 0 when it has none
ValueOf(d, k) ==
    IF \E j \in DOMAIN d : d[j][1] = k
    THEN d[CHOOSE j \in DOMAIN d : d[j][1] = k][2]
    ELSE 0

RECURSIVE SumOver(_, _, _)
SumOver(bag, ds, k) ==
    IF ds = {} THEN 0
    ELSE LET d == CHOOSE x \in ds : TRUE
         IN bag[d] * ValueOf(d, k) + SumOver(bag, ds \ {d}, k)

\* the sum of a key's per-batch values over the batches of the current phase
PhaseSum(k) == SumOver(phaseHist, DOMAIN phaseHist, k)

\* the keys of the dicts returned in the current phase
PhaseKeys == UNION {{d[j][1] : j \in DOMAIN d} : d \in DOMAIN phaseHist}

EntriesAt(w, e) == {w[j] : j \in {x \in DOMAIN w : w[x].step = e}}

\* C1: the epochs run are opt.epoch .. opt.n_epochs-1 in ascending order, each
\* once; in each, every batch of train_loader gets one training step, in loader
\* order, and all of them come before the first test batch of the epoch: the
\* steps made so far are a prefix of that schedule, and all of it at the end.
C1_EpochSchedule ==
    Looping =>
        LET steps == SelectSeq(trace, IsStep)
        IN /\ IsPrefix(steps, StepsFrom(opt.epoch))
           /\ pc = "done" => steps = StepsFrom(opt.epoch)

C1_Witness ==
    /\ Looping /\ pc = "done"
    /\ NTrain = 2 /\ NTest = 2
    /\ opt.epoch = 0 /\ opt.n_epochs = 2
    /\ Count("train") = 4

C3_LoggedAverage ==
    Looping =>
        /\ \A k \in TrainKeys \cup TestKeys :
              IF k \in PhaseKeys
              THEN \E j \in DOMAIN avg_stats : avg_stats[j] = <<k, PhaseSum(k)>>
              ELSE ~HasKey(avg_stats, k)
        /\ pc = "test_begin" =>
              EntriesAt(train_writer, epoch) =
                 IF NTrain = 0 THEN {}
                 ELSE {[tag |-> k, value |-> [num |-> PhaseSum(k), den |-> NTrain],
                        step |-> epoch] : k \in TrainKeys}
        /\ pc = "checkpoint" =>
              EntriesAt(test_writer, epoch) =
                 IF NTest = 0 THEN {}
                 ELSE {[tag |-> k, value |-> [num |-> PhaseSum(k), den |-> NTest],
                        step |-> epoch] : k \in TestKeys}

C3_Witness ==
    /\ mode = "run_audio" /\ pc = "checkpoint"
    /\ epoch > opt.epoch
    /\ NTrain = 2 /\ NTest = 2
    /\ PhaseSum("test loss") = 3
    /\ Len(test_writer) = 4

\* C4: a training step clears the gradients, runs the forward pass, computes
\* the loss, runs the backward pass and steps the optimizer, in this order and
\* each once; so there is one optimizer step per training batch, and the
\* gradient it uses holds the current batch only.
C4_TrainStepOrder ==
    Looping =>
        /\ pc \in TrainPcs \ {"train_loop", "log_train"} =>
              IsPrefix(ops, <<"train", "zero_grad", "forward", "loss", "backward", "step">>)
        /\ pc = "t_ret" =>
              /\ ops = <<"train", "zero_grad", "forward", "loss", "backward", "step">>
              /\ optimizer.used \subseteq {<<epoch, train_loader[i]>>}
              /\ mode = "run_audio" => optimizer.used = {<<epoch, train_loader[i]>>}
        /\ pc = "t_step" => grad \subseteq {<<epoch, train_loader[i]>>}
        /\ optimizer.steps = Count("train") + (IF pc = "t_ret" THEN 1 ELSE 0)

C4_Witness ==
    /\ mode = "run_audio" /\ pc = "t_ret"
    /\ epoch > opt.epoch /\ i = 2
    /\ optimizer.steps = 4

\* C5: at every forward call of run_audio (train_audio and test_audio), for
\* both values of opt.cuda, the input and label tensors are on the device of
\* the network.
C5_SameDevice ==
    (mode = "run_audio" /\ pc \in {"t_fwd", "e_fwd"}) => dataDev = net.device

\* C6: the scalars of epoch e are written with step e, once per key per writer;
\* the train scalars of e are there before the test phase of e starts; the
\* steps written to a writer increase; the train writer gets the keys of the
\* training step only and the test writer those of the test step only.
Increasing(w) ==
    \A j, k \in DOMAIN w :
        j < k => /\ w[j].step <= w[k].step
                 /\ w[j].tag = w[k].tag => w[j].step < w[k].step

C6_ScalarSteps ==
    Looping =>
        /\ \A j \in DOMAIN train_writer :
              /\ train_writer[j].tag \in TrainKeys
              /\ train_writer[j].step \in opt.epoch..epoch
              /\ train_writer[j].step = epoch => pc \in TestPcs \cup {"checkpoint"}
        /\ \A j \in DOMAIN test_writer :
              /\ test_writer[j].tag \in TestKeys
              /\ test_writer[j].step \in opt.epoch..epoch
              /\ test_writer[j].step = epoch => pc = "checkpoint"
        /\ Increasing(train_writer) /\ Increasing(test_writer)
        /\ (pc \in TestPcs \cup {"checkpoint"} /\ NTrain > 0) =>
              {x.tag : x \in EntriesAt(train_writer, epoch)} = TrainKeys
        /\ (pc = "checkpoint" /\ NTest > 0) =>
              {x.tag : x \in EntriesAt(test_writer, epoch)} = TestKeys
        /\ \A e \in opt.epoch..(epoch - 1) :
              /\ NTrain > 0 => {x.tag : x \in EntriesAt(train_writer, e)} = TrainKeys
              /\ NTest > 0 => {x.tag : x \in EntriesAt(test_writer, e)} = TestKeys

C6_Witness ==
    /\ mode = "run_audio" /\ pc = "done"
    /\ Len(train_writer) = 4 /\ Len(test_writer) = 4
    /\ train_writer[1].step = 0 /\ train_writer[4].step = 1

\* the distance to the end of the run: the epochs left, then the position in
\* the epoch
Width == 10 * NTrain + 10 * NTest + 7

Rank ==
    CASE pc = "epoch_head" -> 10 * NTrain + 10 * NTest + 6
      [] pc = "train_loop" -> 10 * (NTrain - i) + 10 * NTest + 5
      [] pc = "t_mode"     -> 10 * (NTrain - i) + 10 * NTest + 13
      [] pc = "t_zero"     -> 10 * (NTrain - i) + 10 * NTest + 12
      [] pc = "t_move"     -> 10 * (NTrain - i) + 10 * NTest + 11
      [] pc = "t_fwd"      -> 10 * (NTrain - i) + 10 * NTest + 10
      [] pc = "t_loss"     -> 10 * (NTrain - i) + 10 * NTest + 9
      [] pc = "t_bwd"      -> 10 * (NTrain - i) + 10 * NTest + 8
      [] pc = "t_step"     -> 10 * (NTrain - i) + 10 * NTest + 7
      [] pc = "t_ret"      -> 10 * (NTrain - i) + 10 * NTest + 6
      [] pc = "log_train"  -> 10 * NTest + 4
      [] pc = "test_begin" -> 10 * NTest + 3
      [] pc = "test_loop"  -> 10 * (NTest - i) + 2
      [] pc = "e_mode"     -> 10 * (NTest - i) + 7
      [] pc = "e_move"     -> 10 * (NTest - i) + 6
      [] pc = "e_fwd"      -> 10 * (NTest - i) + 5
      [] pc = "e_loss"     -> 10 * (NTest - i) + 4
      [] pc = "e_ret"      -> 10 * (NTest - i) + 3
      [] pc = "log_test"   -> 1
      [] pc = "checkpoint" -> 0
      [] pc = "b_train"    -> (NTrain - i) + NTest + 3
      [] pc = "b_test"     -> (NTest - i) + 2
      [] pc = "b_round"    -> 1
      [] OTHER             -> 0

EpochsLeft == IF epoch < opt.n_epochs THEN opt.n_epochs - epoch ELSE 0

Measure == IF pc = "done" THEN 0 ELSE EpochsLeft * Width + Rank + 1

EpochsToRun == IF opt.n_epochs - opt.epoch > 0 THEN opt.n_epochs - opt.epoch ELSE 0

\* C7: with finite loaders run_audio and run terminate after exactly
\* max(0, opt.n_epochs - opt.epoch) epochs, and when opt.epoch >= opt.n_epochs
\* they make no training step, no test evaluation, no scalar log and no
\* checkpoint call.  Termination: only the end has no next step, and every
\* step brings the end nearer.
C7_Terminates ==
    /\ [](pc = "done" \/ ENABLED Next)
    /\ [][Measure' < Measure]_vars
    /\ []((Looping /\ pc = "done") =>
              /\ Count("log_train") = EpochsToRun
              /\ Count("log_test") = EpochsToRun
              /\ Count("train") = EpochsToRun * NTrain
              /\ Count("test") = EpochsToRun * NTest)
    /\ []((Looping /\ opt.epoch >= opt.n_epochs) =>
              /\ trace = <<>> /\ ops = <<>>
              /\ optimizer.steps = 0 /\ backwards = 0
              /\ train_writer = <<>> /\ test_writer = <<>>
              /\ net_saver.calls = <<>> /\ net_saver.snapshot = -1)

C7_Witness ==
    /\ Looping /\ pc = "done"
    /\ opt.epoch = 0 /\ opt.n_epochs = 2
    /\ NTrain = 2 /\ NTest = 1
    /\ Count("log_test") = 2

\* the last key of the dict the test step returns
LastTestKey == IF mode = "run_audio" THEN "accuracy" ELSE "test loss"

\* C8: the score passed to save_if_best in epoch e is the per-batch average of
\* the last key of the test statistics of epoch e ('accuracy' in run_audio,
\* 'test loss' in run), and 0 when the test phase gave no statistics; it is
\* never a training average nor a value of an earlier epoch.
C8_ScoreOfTestPhase ==
    (/\ Looping /\ pc = "epoch_head"
     /\ net_saver.calls # <<>>
     /\ Last(net_saver.calls).epoch = epoch - 1)
        => Last(net_saver.calls).score =
              IF NTest = 0 THEN Zero
              ELSE [num |-> PhaseSum(LastTestKey), den |-> NTest]

C8_Witness ==
    /\ mode = "run_audio" /\ pc = "epoch_head"
    /\ Len(net_saver.calls) = 2
    /\ Last(net_saver.calls).epoch = epoch - 1
    /\ NTrain = 2 /\ NTest = 2
    /\ Last(net_saver.calls).score = [num |-> 1, den |-> 2]
    /\ net_saver.calls[1].score = [num |-> 0, den |-> 2]

\* C9: no optimizer step and no backward pass is made between the start and
\* the end of a test phase, nor in benchmark; in every epoch the network is in
\* training mode at a training forward pass and in evaluation mode at a test
\* forward pass.
C9_EvaluationKeepsModel ==
    /\ pc = "t_fwd" => net.training
    /\ pc = "e_fwd" => ~net.training
    /\ pc \in TestPcs =>
          /\ optimizer.steps = (epoch - opt.epoch + 1) * NTrain
          /\ backwards = (epoch - opt.epoch + 1) * NTrain
    /\ pc \in {"e_mode", "e_move", "e_fwd", "e_loss", "e_ret"} =>
          IsPrefix(ops, <<"eval", "forward", "loss">>)
    /\ mode = "benchmark" => optimizer.steps = 0 /\ backwards = 0 /\ grad = {}

C9_Witness ==
    /\ Looping /\ pc = "t_fwd"
    /\ epoch > opt.epoch
    /\ NTest > 0
    /\ net.training

\* the batch slot j of benchmark's arrays is to hold
SlotBatch(j) == IF j <= NTrain THEN <<"train", j>> ELSE <<"test", j - NTrain>>

\* C10: in benchmark every write has 0 <= idx < len(train_loader) +
\* len(test_loader), every slot of the output and label arrays is written
\* once, the training batches fill slots 0 .. len(train_loader)-1 in loader
\* order and the test batches follow, and idx ends at the sum of the lengths.
C10_BenchmarkSlots ==
    mode = "benchmark" =>
        /\ pc # "index_error"
        /\ 0 <= idx /\ idx <= NTrain + NTest
        /\ (pc = "b_train" /\ i < NTrain) => idx < NTrain + NTest
        /\ (pc = "b_test" /\ i < NTest) => idx < NTrain + NTest
        /\ Len(output) = NTrain + NTest
        /\ label_glob = output
        /\ \A j \in DOMAIN output :
              /\ j <= idx => output[j] = <<SlotBatch(j)>>
              /\ j > idx => output[j] = <<>>
        /\ pc \in {"b_round", "done"} => idx = NTrain + NTest

C10_Witness ==
    /\ mode = "benchmark" /\ pc = "done"
    /\ NTrain = 2 /\ NTest = 2
    /\ idx = 4
    /\ output[3] = <<<<"test", 1>>>>

====
